---- MODULE Spec2Model ----
(***************************************************************************)
(* MeteoraPositionStream (src/unnamed/part_000, lines 133-342): the        *)
(* orchestrator that turns the signals of a ParsedTransactionStream into   *)
(* a stream of position records.                                           *)
(*                                                                         *)
(* JavaScript runs every handler to its next await, so one action is one   *)
(* run-to-completion segment: a source signal's handler, the continuation  *)
(* after `await this._processor.next()`, the continuation after            *)
(* `await updateOpenPosition(...)`, one turn of the source-end drain loop, *)
(* a cancel() call.  A continuation that is only a microtask away (a       *)
(* next() that polled an empty or busy processor, a Promise.all over       *)
(* finalize steps that all finished synchronously) is part of the segment  *)
(* that scheduled it.                                                      *)
(*                                                                         *)
(* `emitted` is the sequence of chunks handed to the underlying stream     *)
(* (super.push); `errors` counts the 'error' events emitted on the stream  *)
(* (this.emit).                                                            *)
(***************************************************************************)
EXTENDS Integers, Sequences, FiniteSets, TLC

\* Bounds of the model.
MaxBatches == 2        \* raw batches the source delivers in one run
MaxSignatures == 2     \* largest signatureCount value the source reports
MaxCancels == 2        \* cancel() calls in one run

VARIABLES
    inited,                     \* _init has attached the transaction source
    receivedAllTransactions,    \* _receivedAllTransactions
    transactionsReceivedCount,  \* _transactionsReceivedCount
    transactionsProcessedCount, \* _transactionsProcessedCount
    transactions,               \* _transactions, the classified-transaction log
    done,                       \* _done
    cancelling,                 \* _cancelling
    cancelled,                  \* _cancelled
    pendingPositions,           \* _pendingPositions
    queue,                      \* _processor: batches added and not yet dequeued
    isProcessing,               \* _processor: a transform is in flight
    inflight,                   \* the _processBatch call awaiting next(), if any
    calls,                      \* the _processBatch calls awaiting Promise.all
    loop,                       \* position of the source-end drain loop
    emitted,                    \* the chunks handed to super.push, in order
    errors,                     \* number of 'error' events emitted on the stream
    src,                        \* what the transaction source has done so far
    obs                         \* what has been observed of the collaborators

vars == <<inited, receivedAllTransactions, transactionsReceivedCount,
          transactionsProcessedCount, transactions, done, cancelling, cancelled,
          pendingPositions, queue, isProcessing, inflight, calls, loop, emitted,
          errors, src, obs>>

----------------------------------------------------------------------------
\* Data

Keys == {"P1", "P2"}

\* A classified transaction: its position key and its operation kind.
MeteoraPositionTransaction == [position : Keys, open : BOOLEAN, close : BOOLEAN]

OpenTx(k) == [position |-> k, open |-> TRUE, close |-> FALSE]
CloseTx(k) == [position |-> k, open |-> FALSE, close |-> TRUE]

\* The raw batches the source may deliver: the size of the batch and what the
\* classifier makes of it.  A raw transaction that belongs to no position
\* classifies to nothing; a position may be opened and closed in one batch,
\* closed in a later batch than it was opened in, closed without its opening
\* transaction being part of the history, or opened twice.
RawBatches ==
    { [inputCount |-> 1, output |-> << >>],
      [inputCount |-> 1, output |-> <<OpenTx("P1")>>],
      [inputCount |-> 1, output |-> <<CloseTx("P1")>>],
      [inputCount |-> 2, output |-> <<OpenTx("P1"), CloseTx("P1")>>],
      [inputCount |-> 2, output |-> <<OpenTx("P1"), OpenTx("P2")>>] }

\* The chunks of MeteoraPositionStreamData, and null.
Chunk(type, position, value, isClosed) ==
    [type |-> type, position |-> position, value |-> value, isClosed |-> isClosed]

NullChunk == Chunk("null", "", 0, FALSE)
SignatureCountChunk(n) == Chunk("signatureCount", "", n, FALSE)
AllSignaturesFoundChunk == Chunk("allSignaturesFound", "", 0, FALSE)
TransactionCountChunk(n) == Chunk("transactionCount", "", n, FALSE)
PositionAndTransactionsChunk(key, n, isClosed) ==
    Chunk("positionAndTransactions", key, n, isClosed)
UpdatingOpenPositionsChunk(n) == Chunk("updatingOpenPositions", "", n, FALSE)

DataTypes == {"signatureCount", "allSignaturesFound", "transactionCount",
              "positionAndTransactions", "updatingOpenPositions"}

----------------------------------------------------------------------------
\* The orchestrator's state as one record, so that a handler is a composition
\* of the methods it calls.

Cur ==
    [receivedAll |-> receivedAllTransactions,
     received |-> transactionsReceivedCount,
     processed |-> transactionsProcessedCount,
     transactions |-> transactions,
     done |-> done,
     cancelling |-> cancelling,
     cancelled |-> cancelled,
     pending |-> pendingPositions,
     queue |-> queue,
     isProcessing |-> isProcessing,
     inflight |-> inflight,
     calls |-> calls,
     loop |-> loop,
     emitted |-> emitted]

Commit(s) ==
    /\ receivedAllTransactions' = s.receivedAll
    /\ transactionsReceivedCount' = s.received
    /\ transactionsProcessedCount' = s.processed
    /\ transactions' = s.transactions
    /\ done' = s.done
    /\ cancelling' = s.cancelling
    /\ cancelled' = s.cancelled
    /\ pendingPositions' = s.pending
    /\ queue' = s.queue
    /\ isProcessing' = s.isProcessing
    /\ inflight' = s.inflight
    /\ calls' = s.calls
    /\ loop' = s.loop
    /\ emitted' = s.emitted

----------------------------------------------------------------------------
\* AsyncBatchProcessor (./util): a FIFO queue of batches, one transform in
\* flight at a time, polled by next().

addBatch(s, batch) == [s EXCEPT !.queue = Append(@, batch)]

isComplete(s) == s.queue = << >> /\ ~s.isProcessing

\* next() dequeues the oldest batch and starts its transform, unless the queue
\* is empty or a transform is in flight: then it returns {0, []} at once.
nextDequeues(s) == s.queue # << >> /\ ~s.isProcessing

EmptyResult == [inputCount |-> 0, output |-> << >>]

----------------------------------------------------------------------------
\* MeteoraPosition and invertAndFillMissingFees (./MeteoraPosition)

\* The transactions of the log that share the key, in log order.
PositionTransactions(txs, key) == SelectSeq(txs, LAMBDA t : t.position = key)

\* A position is closed when one of its transactions closes it.
isClosed(group) == \E i \in 1..Len(group) : group[i].close

----------------------------------------------------------------------------
\* Array.prototype.indexOf and Array.prototype.splice(start, 1)

indexOf(seq, x) ==
    IF \E i \in 1..Len(seq) : seq[i] = x
    THEN (CHOOSE i \in 1..Len(seq) :
              seq[i] = x /\ \A j \in 1..(i - 1) : seq[j] # x) - 1
    ELSE -1

splice1(seq, start) ==
    LET from == IF start < 0
                THEN (IF Len(seq) + start < 0 THEN 0 ELSE Len(seq) + start)
                ELSE start
    IN  IF from >= Len(seq) THEN seq
        ELSE SubSeq(seq, 1, from) \o SubSeq(seq, from + 2, Len(seq))

----------------------------------------------------------------------------
\* MeteoraPositionStream

\* super.push(chunk): the chunk reaches the underlying stream.
superPush(s, chunk) == [s EXCEPT !.emitted = Append(@, chunk)]

\* push(chunk), lines 324-341: the emission gate.
push(s, chunk) ==
    IF Len(s.pending) > 0 THEN superPush(s, chunk)
    ELSE IF s.cancelling /\ ~s.cancelled
         THEN superPush([s EXCEPT !.cancelled = TRUE], NullChunk)
    ELSE IF s.cancelled THEN s
    ELSE superPush(s, chunk)

\* _finish(), lines 299-308: the completion check.
_finish(s) ==
    IF s.receivedAll /\ s.received = s.processed /\ ~s.done
    THEN push([s EXCEPT !.done = TRUE], NullChunk)
    ELSE s

\* _updateOpenPosition, lines 286-297, after `await updateOpenPosition(...)`
\* has resolved: the record built before the await is pushed.
_updateOpenPosition(s, task) ==
    push(s, PositionAndTransactionsChunk(task.position, task.n, FALSE))

\* The end of _createPosition, lines 280-283: one entry of the key leaves
\* _pendingPositions.
removePending(s, key) ==
    [s EXCEPT !.pending = splice1(@, indexOf(@, key))]

\* _createPosition, lines 255-284, up to its first await.  The result is the
\* state and the finalize steps left in flight (none for a closed position,
\* which is pushed and removed from _pendingPositions at once).
_createPosition(s, tx) ==
    LET s1 == [s EXCEPT !.pending = Append(@, tx.position)]
        group == PositionTransactions(s1.transactions, tx.position)
    IN  IF isClosed(group)
        THEN [st |-> removePending(
                        push(s1, PositionAndTransactionsChunk(
                                     tx.position, Len(group), TRUE)),
                        tx.position),
              tasks |-> << >>]
        ELSE [st |-> s1,
              tasks |-> <<[position |-> tx.position, n |-> Len(group),
                           atCancel |-> FALSE]>>]

\* output.map(async ...) of lines 218-224: each callback runs to its first
\* await, in the order of the output.
RECURSIVE createPositions(_, _, _)
createPositions(s, output, tasks) ==
    IF output = << >> THEN [st |-> s, tasks |-> tasks]
    ELSE IF Head(output).open
         THEN LET r == _createPosition(s, Head(output))
              IN  createPositions(r.st, Tail(output), tasks \o r.tasks)
         ELSE createPositions(s, Tail(output), tasks)

\* A variant of meteoraTransactionCount that reports the size of the batch's
\* output instead of the length of the log.
meteoraTransactionCountOfBatch(txs, output) == Len(output)

\* The value pushed as meteoraTransactionCount, line 215, given the log after
\* line 212 and the batch's output.
meteoraTransactionCount(txs, output) == Len(txs)

\* The end of _processBatch, lines 227-229, and the return to the drain loop
\* (`await delay(0)`, line 200) when the loop made the call.
processBatchEnd(s, inputCount, fromLoop) ==
    LET s1 == IF inputCount > 0
              THEN [s EXCEPT !.processed = @ + inputCount]
              ELSE s
        s2 == _finish(s1)
    IN  IF fromLoop THEN [s2 EXCEPT !.loop = "check"] ELSE s2

\* _processBatch, lines 208-229, from the moment next() has resolved with
\* `result`.  With finalize steps in flight the call waits in `calls`.
processBatchResume(s, result, fromLoop) ==
    IF result.inputCount > 0 /\ Len(result.output) > 0
    THEN LET s1 == [s EXCEPT !.transactions = @ \o result.output]
             s2 == push(s1, TransactionCountChunk(
                                meteoraTransactionCount(s1.transactions,
                                                        result.output)))
             r == createPositions(s2, result.output, << >>)
         IN  IF r.tasks = << >>
             THEN processBatchEnd(r.st, result.inputCount, fromLoop)
             ELSE [r.st EXCEPT !.calls =
                       Append(@, [inputCount |-> result.inputCount,
                                  tasks |-> r.tasks,
                                  fromLoop |-> fromLoop,
                                  rejected |-> FALSE])]
    ELSE processBatchEnd(s, result.inputCount, fromLoop)

\* _processBatch, lines 206-208: the guard and the call of next().
_processBatch(s, fromLoop) ==
    IF ~s.cancelling /\ ~s.cancelled
    THEN IF nextDequeues(s)
         THEN [s EXCEPT !.isProcessing = TRUE,
                        !.queue = Tail(@),
                        !.inflight = <<[batch |-> Head(s.queue),
                                        fromLoop |-> fromLoop]>>,
                        !.loop = IF fromLoop THEN "waiting" ELSE @]
         ELSE processBatchResume(s, EmptyResult, fromLoop)
    ELSE s

\* _parseTransactions, lines 233-253.
_parseTransactions(s, data) ==
    IF data.type # "parsedTransaction"
    THEN LET s1 == CASE data.type = "allSignaturesFound" ->
                        [s EXCEPT !.receivedAll = TRUE]
                     [] data.type = "signatureCount" ->
                        [s EXCEPT !.received = data.signatureCount]
                     [] OTHER -> s
         IN  _finish(push(s1, data.chunk))
    ELSE _processBatch(addBatch(s, data.batch), FALSE)

----------------------------------------------------------------------------
\* A variant of drainLoopTurn with the loop's test inverted: the loop stops
\* while batches are left and polls on when none is.
drainLoopTurnInverted(s) ==
    IF ~isComplete(s) THEN [s EXCEPT !.loop = "exited"]
    ELSE _processBatch([s EXCEPT !.loop = "check"], TRUE)

\* The drain loop of the source's 'end' handler, lines 198-201: one turn, from
\* the test of isComplete to the next await that does not resolve at once.
drainLoopTurn(s) ==
    IF isComplete(s) THEN [s EXCEPT !.loop = "exited"]
    ELSE _processBatch([s EXCEPT !.loop = "check"], TRUE)

\* A _processBatch call whose promise rejects takes the drain loop with it
\* when the loop is awaiting it (the handler's promise rejects, unhandled).
rejectCaller(s, fromLoop) ==
    IF fromLoop THEN [s EXCEPT !.loop = "rejected"] ELSE s

RemoveAt(seq, i) == SubSeq(seq, 1, i - 1) \o SubSeq(seq, i + 1, Len(seq))

----------------------------------------------------------------------------
\* Initial state: the constructor has returned, _init is awaiting getDlmmPairs.

Init ==
    /\ inited = FALSE
    /\ receivedAllTransactions = FALSE
    /\ transactionsReceivedCount = 0
    /\ transactionsProcessedCount = 0
    /\ transactions = << >>
    /\ done = FALSE
    /\ cancelling = FALSE
    /\ cancelled = FALSE
    /\ pendingPositions = << >>
    /\ queue = << >>
    /\ isProcessing = FALSE
    /\ inflight = << >>
    /\ calls = << >>
    /\ loop = "none"
    /\ emitted = << >>
    /\ errors = 0
    /\ src = [signatureCount |-> 0, allSignaturesFound |-> FALSE, batches |-> 0,
              total |-> 0, ended |-> FALSE, errored |-> FALSE,
              cancels |-> 0]
    /\ obs = [classifierFailed |-> FALSE, augmenterFailed |-> FALSE,
              cancelThrew |-> FALSE]

orchestrator == <<receivedAllTransactions, transactionsReceivedCount,
                  transactionsProcessedCount, transactions, done, cancelling,
                  cancelled, pendingPositions, queue, isProcessing, inflight,
                  calls, loop, emitted>>

\* _init, lines 168-204: getDlmmPairs has resolved; the processor and the
\* transaction source exist and the handlers are attached.
InitResolves ==
    /\ ~inited
    /\ inited' = TRUE
    /\ UNCHANGED <<orchestrator, errors, src, obs>>

\* The finalize steps in flight when cancellation is requested are marked
\* (an observation: the code keeps no such mark).
markInFlight(cs) ==
    [i \in 1..Len(cs) |->
        [cs[i] EXCEPT !.tasks =
            [j \in 1..Len(cs[i].tasks) |->
                [cs[i].tasks[j] EXCEPT !.atCancel = TRUE]]]]

\* A variant of cancel that flips the request instead of setting it.
cancelToggling(s) == [s EXCEPT !.cancelling = ~@]

\* cancel(), line 165, reached when line 164 has not thrown.
cancel(s) == [s EXCEPT !.cancelling = TRUE]

\* A cancel() call, lines 163-166.  The call is passed on to the source
\* (src.cancels counts the calls).  Before _init has attached the source,
\* this._transactionStream is undefined: line 164 throws a TypeError and line
\* 165 is not reached.
Cancel ==
    /\ src.cancels < MaxCancels
    /\ src' = [src EXCEPT !.cancels = @ + 1]
    /\ IF inited
       THEN /\ Commit([cancel(Cur) EXCEPT !.calls = IF cancelling THEN @
                                                   ELSE markInFlight(@)])
            /\ UNCHANGED obs
       ELSE /\ obs' = [obs EXCEPT !.cancelThrew = TRUE]
            /\ UNCHANGED orchestrator
    /\ UNCHANGED <<inited, errors>>

\* The source's 'data' handler (line 194) on a signatureCount signal.  The
\* source reports a running count: it grows, it is never below the number of
\* transactions already delivered, and it is final once allSignaturesFound
\* has been signalled.  A batch may arrive before the count that covers it.
SourceSignatureCount ==
    /\ inited /\ ~src.ended /\ ~src.allSignaturesFound
    /\ \E n \in 1..MaxSignatures :
          /\ n > src.signatureCount
          /\ n >= src.total
          /\ Commit(_parseTransactions(Cur,
                 [type |-> "signatureCount", signatureCount |-> n,
                  chunk |-> SignatureCountChunk(n)]))
          /\ src' = [src EXCEPT !.signatureCount = n]
    /\ UNCHANGED <<inited, errors, obs>>

\* The source's 'data' handler on the allSignaturesFound signal.
SourceAllSignaturesFound ==
    /\ inited /\ ~src.ended /\ ~src.allSignaturesFound
    /\ Commit(_parseTransactions(Cur,
           [type |-> "allSignaturesFound", chunk |-> AllSignaturesFoundChunk]))
    /\ src' = [src EXCEPT !.allSignaturesFound = TRUE]
    /\ UNCHANGED <<inited, errors, obs>>

\* The source's 'data' handler on a batch of parsed transactions.
SourceParsedTransactions ==
    /\ inited /\ ~src.ended /\ src.batches < MaxBatches
    /\ \E batch \in RawBatches :
          /\ src.total + batch.inputCount <= MaxSignatures
          /\ Commit(_parseTransactions(Cur,
                 [type |-> "parsedTransaction", batch |-> batch]))
          /\ src' = [src EXCEPT !.batches = @ + 1,
                                !.total = @ + batch.inputCount]
    /\ UNCHANGED <<inited, errors, obs>>

\* The source's 'end' handler, lines 195-202, up to the loop's first await.
SourceEnd ==
    /\ inited /\ ~src.ended
    /\ Commit(drainLoopTurn([Cur EXCEPT !.receivedAll = TRUE]))
    /\ src' = [src EXCEPT !.ended = TRUE]
    /\ UNCHANGED <<inited, errors, obs>>

\* The source's 'error' handler, line 203.
SourceError ==
    /\ inited /\ ~src.errored
    /\ errors' = errors + 1
    /\ src' = [src EXCEPT !.errored = TRUE]
    /\ UNCHANGED <<inited, orchestrator, obs>>

\* The drain loop resumes after `await delay(0)`, lines 198-201.
DrainLoop ==
    /\ loop = "check"
    /\ Commit(drainLoopTurn(Cur))
    /\ UNCHANGED <<inited, errors, src, obs>>

\* The classifier resolves: `await this._processor.next()` (line 208) returns
\* the batch's size and its classified transactions.
TransformResolves ==
    /\ inflight # << >>
    /\ LET call == inflight[1]
           s == [Cur EXCEPT !.isProcessing = FALSE, !.inflight = << >>]
       IN  Commit(processBatchResume(s,
               [inputCount |-> call.batch.inputCount,
                output |-> call.batch.output], call.fromLoop))
    /\ UNCHANGED <<inited, errors, src, obs>>

\* The classifier rejects: next() rejects, _processBatch rejects, nobody
\* catches it.  What the processor's in-flight mark is afterwards is not
\* defined.
TransformRejects ==
    /\ inflight # << >>
    /\ \E stuck \in BOOLEAN :
          Commit(rejectCaller([Cur EXCEPT !.isProcessing = stuck,
                                          !.inflight = << >>],
                              inflight[1].fromLoop))
    /\ obs' = [obs EXCEPT !.classifierFailed = TRUE]
    /\ UNCHANGED <<inited, errors, src>>

\* `await updateOpenPosition(...)` (line 291) resolves for finalize step j of
\* call i: lines 292-296, 280-283, and lines 227-229 when it was the call's
\* last step.
AugmenterResolves ==
    /\ \E i \in 1..Len(calls) : \E j \in 1..Len(calls[i].tasks) :
          LET call == calls[i]
              task == call.tasks[j]
              left == RemoveAt(call.tasks, j)
              s1 == removePending(_updateOpenPosition(Cur, task), task.position)
              s2 == [s1 EXCEPT !.calls =
                        IF left = << >> THEN RemoveAt(@, i)
                        ELSE [@ EXCEPT ![i].tasks = left]]
          IN  Commit(IF left = << >> /\ ~call.rejected
                     THEN processBatchEnd(s2, call.inputCount, call.fromLoop)
                     ELSE s2)
    /\ UNCHANGED <<inited, errors, src, obs>>

\* `await updateOpenPosition(...)` rejects for finalize step j of call i:
\* _createPosition stops before line 280, Promise.all rejects and with it
\* _processBatch; the call's other finalize steps run on.
AugmenterRejects ==
    /\ \E i \in 1..Len(calls) : \E j \in 1..Len(calls[i].tasks) :
          LET call == calls[i]
              left == RemoveAt(call.tasks, j)
              s1 == [Cur EXCEPT !.calls =
                        IF left = << >> THEN RemoveAt(@, i)
                        ELSE [@ EXCEPT ![i].tasks = left,
                                       ![i].rejected = TRUE]]
          IN  Commit(IF call.rejected THEN s1
                     ELSE rejectCaller(s1, call.fromLoop))
    /\ obs' = [obs EXCEPT !.augmenterFailed = TRUE]
    /\ UNCHANGED <<inited, errors, src>>

Next ==
    \/ InitResolves
    \/ Cancel
    \/ SourceSignatureCount
    \/ SourceAllSignaturesFound
    \/ SourceParsedTransactions
    \/ SourceEnd
    \/ SourceError
    \/ DrainLoop
    \/ TransformResolves
    \/ TransformRejects
    \/ AugmenterResolves
    \/ AugmenterRejects

Spec == Init /\ [][Next]_vars

\* The runs in which cancel() is never called and every classifier and
\* augmenter call resolves.  A call that is awaited resolves in the end, and
\* the drain loop's `delay(0)` timer fires: weak fairness of the three
\* continuations.  Nothing is asked of the source.
NextResolving ==
    \/ InitResolves
    \/ SourceSignatureCount
    \/ SourceAllSignaturesFound
    \/ SourceParsedTransactions
    \/ SourceEnd
    \/ SourceError
    \/ DrainLoop
    \/ TransformResolves
    \/ AugmenterResolves

FairSpec ==
    /\ Init
    /\ [][NextResolving]_vars
    /\ WF_vars(DrainLoop)
    /\ WF_vars(TransformResolves)
    /\ WF_vars(AugmenterResolves)

----------------------------------------------------------------------------
\* Reading the output.

\* The positions in `emitted` of the terminal signal, push(null).
Terminals == {i \in 1..Len(emitted) : emitted[i].type = "null"}

\* The positions in `emitted` of the data chunks.
DataChunks == {i \in 1..Len(emitted) : emitted[i].type \in DataTypes}

\* The positions in `emitted` of the positionAndTransactions chunks of a key.
PositionChunks(key) ==
    {i \in 1..Len(emitted) :
        emitted[i].type = "positionAndTransactions" /\ emitted[i].position = key}

\* The finalize steps in flight, as <<call, step>> indices into `calls`.
InFlight ==
    UNION {{<<i, j>> : j \in 1..Len(calls[i].tasks)} : i \in 1..Len(calls)}

----------------------------------------------------------------------------
\* C1: in every run the terminal signal, push(null) reaching the underlying
\* stream, is produced at most once.
AtMostOneTerminalSignal == Cardinality(Terminals) <= 1


\* C2: once the terminal signal has been emitted, no data chunk follows it.
NoDataAfterTerminal == \A i \in Terminals : \A j \in DataChunks : j < i

\* The finalize steps that were in flight when cancel() was first called and
\* still are.
InFlightAtCancel == {c \in InFlight : calls[c[1]].tasks[c[2]].atCancel}

\* C3: when cancel() is called while finalize steps are in flight, each of
\* them, once its augmentation resolves, has its positionAndTransactions
\* chunk emitted, and all of them are emitted before the terminal signal: as
\* long as one of them is still in flight no terminal signal is emitted, and
\* the step in which one of them resolves (it leaves _pendingPositions)
\* appends its chunk.
CancelFlushesInFlight ==
    [][/\ (InFlightAtCancel # {} /\ InFlightAtCancel' # {})
          => Terminals' = Terminals
       /\ (/\ Cardinality(InFlightAtCancel') < Cardinality(InFlightAtCancel)
           /\ Len(pendingPositions') < Len(pendingPositions))
          => /\ Len(emitted') > Len(emitted)
             /\ emitted'[Len(emitted) + 1].type = "positionAndTransactions"]_vars

\* No collaborator has failed and the source has raised no error.
NoError == errors = 0 /\ ~obs.classifierFailed /\ ~obs.augmenterFailed

\* No batch is queued, in transform or in finalization.
NothingInFlight == queue = << >> /\ inflight = << >> /\ calls = << >>

\* C4: in a run without cancellation or error, a step that emits the terminal
\* signal ends in a state where the source has signalled allSignaturesFound,
\* signaturesProcessed equals signaturesReceived, and no received batch is
\* queued, in transform or in finalization.
EndOnlyWhenAllProcessed ==
    [][(Cardinality(Terminals') > Cardinality(Terminals)
          /\ ~cancelling' /\ NoError')
       => /\ src'.allSignaturesFound
          /\ transactionsProcessedCount' = transactionsReceivedCount'
          /\ NothingInFlight']_vars

\* The source has reported signatureCount = n and allSignaturesFound, has
\* delivered batches of n transactions in all, and has ended.
SourceDeliveredAll ==
    /\ src.ended
    /\ src.allSignaturesFound
    /\ src.signatureCount = src.total

\* C5: when the source has reported signatureCount = n and
\* allSignaturesFound, has delivered batches totalling n transactions, in any
\* order, and has ended, the terminal signal is eventually emitted (no
\* cancel() call, every classifier and augmenter call resolving: FairSpec).
NormalCompletionIsLive == SourceDeliveredAll ~> (Terminals # {})

\* C5's case: the source has delivered two batches and everything else, and
\* the terminal signal has come, after every other chunk.
NormalCompletionIsLiveWitness ==
    /\ SourceDeliveredAll
    /\ src.batches >= 2
    /\ Cardinality(Terminals) = 1
    /\ emitted[Len(emitted)].type = "null"
    /\ NothingInFlight

\* Nothing is left for the stream to do on its own: no transform or
\* augmentation is awaited and the drain loop is not running.
Quiescent == inflight = << >> /\ calls = << >> /\ loop \notin {"check", "waiting"}

\* C6: after cancel() the terminal signal is eventually emitted even if the
\* source delivers nothing more: a state in which cancellation was requested
\* and the stream has nothing left to do has the terminal signal behind it.
CancelReachesTerminal == (cancelling /\ Quiescent) => Terminals # {}

\* C7: when the classifier fails on a batch an error event is emitted on the
\* stream, and no terminal signal is emitted afterwards.
ClassifierFailureIsStreamError ==
    [][/\ obs'.classifierFailed => errors' > 0
       /\ obs.classifierFailed => Terminals' = Terminals]_vars

\* The run has completed normally: the completion check has emitted the
\* terminal signal, nothing was cancelled, nothing failed, nothing is left.
CompletedNormally ==
    done /\ ~cancelling /\ NoError /\ NothingInFlight /\ Terminals # {}

\* The position keys that occur in the log.
LogKeys == {transactions[i].position : i \in 1..Len(transactions)}

\* C8: in a run that completed normally, the positionAndTransactions chunks
\* emitted before the terminal signal hold exactly one chunk for every
\* position key of the log.
OnePositionPerKey ==
    CompletedNormally =>
        \A k \in LogKeys :
            Cardinality({i \in PositionChunks(k) :
                            \A e \in Terminals : i < e}) = 1

\* C9: the positionAndTransactions chunk of a position that is not closed is
\* preceded by an updatingOpenPositions chunk.
OpenPositionsAnnounced ==
    \A i \in 1..Len(emitted) :
        (emitted[i].type = "positionAndTransactions" /\ ~emitted[i].isClosed)
        => \E j \in 1..(i - 1) : emitted[j].type = "updatingOpenPositions"


\* The transactionCount chunks, in emission order.
TransactionCounts ==
    SelectSeq(emitted, LAMBDA c : c.type = "transactionCount")

\* C10: the emitted transactionCount values never decrease, and in a run
\* that completed normally the last of them is the length of the log (none
\* is emitted when the log is empty).
TransactionCountProgress ==
    /\ \A i \in 1..Len(TransactionCounts) : \A j \in i..Len(TransactionCounts) :
          TransactionCounts[i].value <= TransactionCounts[j].value
    /\ CompletedNormally =>
          IF transactions = << >> THEN TransactionCounts = << >>
          ELSE /\ TransactionCounts # << >>
               /\ TransactionCounts[Len(TransactionCounts)].value
                     = Len(transactions)

\* C10's case: a run that completed normally after two batches that each
\* added to the log, the terminal signal coming last.
TransactionCountProgressWitness ==
    /\ CompletedNormally
    /\ emitted[Len(emitted)].type = "null"
    /\ Len(TransactionCounts) = 2
    /\ TransactionCounts[1].value < TransactionCounts[2].value
    /\ TransactionCounts[2].value = Len(transactions)

----------------------------------------------------------------------------
\* C11: a cancel() call made after an earlier call has taken effect leaves
\* the flags, _pendingPositions and the emitted chunks as they were; it emits
\* no terminal signal.
CancelIsIdempotent ==
    [][(src'.cancels > src.cancels /\ cancelling)
       => UNCHANGED <<done, cancelling, cancelled, pendingPositions, emitted>>]_vars

\* C11's case: cancel() has been called twice on the attached source, and the
\* cancellation has been finalized with one terminal signal.
CancelIsIdempotentWitness ==
    /\ src.cancels = 2
    /\ ~obs.cancelThrew
    /\ cancelled
    /\ Cardinality(Terminals) = 1

\* C12: the terminal signal is emitted only while _pendingPositions is empty.
\* A step that emits the terminal signal and leaves _pendingPositions as it
\* found it (no finalize step started or ended in it, so the list was the
\* same when push(null) ran) finds it empty.
TerminalOnlyWhenNothingPending ==
    [][(Cardinality(Terminals') > Cardinality(Terminals)
          /\ pendingPositions' = pendingPositions)
       => pendingPositions = << >>]_vars

\* C13: once cancel() has taken effect no batch is dequeued from the
\* processor and no finalize step starts: no transform is started and no key
\* is added to _pendingPositions.
CancelStartsNoNewWork ==
    [][cancelling
       => /\ Len(queue') >= Len(queue)
          /\ Len(pendingPositions') <= Len(pendingPositions)
          /\ Len(calls') <= Len(calls)]_vars

\* C14: in a run that completed normally every emitted record of a key is
\* built from all the transactions of the final log that share the key, and
\* it is closed when one of them closes the position.
RecordCoversFinalLog ==
    CompletedNormally =>
        \A k \in LogKeys : \A i \in PositionChunks(k) :
            LET group == PositionTransactions(transactions, k)
            IN  /\ emitted[i].value = Len(group)
                /\ emitted[i].isClosed = isClosed(group)

\* C15: after the source's error has been forwarded no batch is drained:
\* next() starts no transform, the log is not appended to and no data chunk
\* is emitted.
SourceErrorStopsDraining ==
    [][src.errored
       => /\ Len(queue') >= Len(queue)
          /\ transactions' = transactions
          /\ DataChunks' = DataChunks]_vars

\* C16: signaturesProcessed never exceeds signaturesReceived, and
\* allSignaturesFound, once true, stays true.
ProcessedAtMostReceived ==
    [][/\ transactionsProcessedCount' <= transactionsReceivedCount'
       /\ receivedAllTransactions => receivedAllTransactions']_vars

\* C17: the source-end drain loop exits when transforms resolve.  When the
\* loop is between two turns and nothing else is awaited (no transform, no
\* finalize step, no failure behind), its next turn makes progress: a turn
\* that leaves the state as it was is repeated for ever.
DrainLoopTerminates ==
    (/\ loop = "check"
     /\ inflight = << >> /\ calls = << >>
     /\ ~obs.classifierFailed /\ ~obs.augmenterFailed)
    => drainLoopTurn(Cur) # Cur

\* The number of entries of a key in _pendingPositions.
PendingCount(key) ==
    Cardinality({i \in 1..Len(pendingPositions) : pendingPositions[i] = key})

\* The number of finalize steps of a key that are in flight.
InFlightCount(key) ==
    Cardinality({c \in InFlight : calls[c[1]].tasks[c[2]].position = key})

\* C18: no key stays in _pendingPositions for ever: every entry of the list
\* belongs to a finalize step that is still in flight, whose end removes
\* exactly that entry, whether the step emits its record or is aborted by an
\* augmenter failure.
PendingKeysAreInFlight ==
    \A k \in Keys : PendingCount(k) = InFlightCount(k)

\* C19: cancel() takes effect in every non-terminal state, the state before
\* _init has attached the source included: after the call cancelling is true
\* and the call has not failed.
CancelAlwaysTakesEffect ==
    [][(src'.cancels > src.cancels /\ ~done /\ ~cancelled)
       => cancelling' /\ ~obs'.cancelThrew]_vars

\* C20: done and cancelled are never both true, and cancelled is true only
\* if cancelling is.
TerminalStatesExclusive ==
    /\ ~(done /\ cancelled)
    /\ cancelled => cancelling

====
